---- MODULE Spec2Model ----
(***************************************************************************)
(* Model of homework.py: a bot that polls the homework-review API, checks  *)
(* the response, compares the pending report with the previous one and     *)
(* sends a Telegram message when they differ.                              *)
(*                                                                         *)
(* Python strings are TLA+ strings.  The Cyrillic literals of the source   *)
(* are written transliterated, because a TLA+ string holds ASCII only.     *)
(***************************************************************************)
EXTENDS Integers, Sequences, FiniteSets, TLC

VARIABLES
    pc,             \* position of main()
    env,            \* PRACTICUM_TOKEN, TELEGRAM_TOKEN, TELEGRAM_CHAT_ID
    bot,            \* the local `bot` of main()
    report,         \* the local `report` of main()
    prev_report,    \* the local `prev_report` of main()
    http,           \* what requests.get did in the current cycle
    timestamp,      \* the argument of the last get_api_answer call
    response,       \* the local `response` of main()
    new_homeworks,  \* the local `new_homeworks` of main()
    homework,       \* the local `homework` of main()
    error,          \* the exception bound by `except Exception as error`
    escaping,       \* an exception leaving the except clause of the loop
    now,            \* time.time()
    sent,           \* the bot.send_message calls of the current cycle
    compared,       \* outcome of `report != prev_report` in the current cycle
    report0,        \* report at the start of the current cycle
    prev0,          \* prev_report at the start of the current cycle
    prev_empty,     \* the cycle before got a valid response with no homeworks
    requests,       \* number of requests.get calls so far
    sleeps,         \* number of time.sleep calls so far
    sends,          \* number of bot.send_message calls so far
    submission,     \* the argument of a parse_status call made on its own
    formatted,      \* what that parse_status call gave
    log,            \* the records given to logging in the current cycle
    failures,       \* cycles right before this one, in a row, that ended in
                    \* the except clause of the loop
    failure_sends,  \* bot.send_message calls made in those cycles
    last_valid,     \* how the latest cycle that passed check_response went on
    lost            \* a delivery failed in send_message in an earlier cycle
                    \* and every response since, this cycle's too, is the same

vars == <<pc, env, bot, report, prev_report, http, timestamp, response,
          new_homeworks, homework, error, escaping, now, sent, compared,
          report0, prev0, prev_empty, requests, sleeps, sends,
          submission, formatted, log, lost, failures, failure_sends,
          last_valid>>

---------------------------------------------------------------------------
(* Bounds of the model *)

MaxCycles == 3      \* iterations of `while True` that are explored
MaxHomeworks == 1   \* longest `homeworks` list in a response
StartTime == 0      \* time.time() when main() starts

---------------------------------------------------------------------------
(* Python values *)

None == "<None>"        \* the value None
Absent == "<absent>"    \* marks a key that a dict does not hold

\* bool(v) of a str or None
Truthy(v) == v \notin {None, ""}

\* d.get(key) of a key whose stored value is v (Absent: no such key)
Get(v) == IF v = Absent THEN None ELSE v

NoError == "none"

Return(value) == [raised |-> NoError, msg |-> "", value |-> value]
Raise(kind, msg) == [raised |-> kind, msg |-> msg, value |-> None]

---------------------------------------------------------------------------
(* Configuration *)

RETRY_PERIOD == 600
HTTP_OK == 200

HOMEWORK_VERDICTS ==
    [approved  |-> "Rabota proverena: revyueru vsyo ponravilos. Ura!",
     reviewing |-> "Rabota vzyata na proverku revyuerom.",
     rejected  |-> "Rabota proverena: u revyuera est zamechaniya."]

\* os.getenv gives None for an unset variable, else its string
EnvValues == {None, "", "value"}

\* mutant of check_tokens: any([...]) in place of all([...])
check_tokens_Any(e) ==
    \/ Truthy(e.TELEGRAM_TOKEN)
    \/ Truthy(e.PRACTICUM_TOKEN)
    \/ Truthy(e.TELEGRAM_CHAT_ID)

\* all([...]) over the three credentials
check_tokens(e) ==
    /\ Truthy(e.TELEGRAM_TOKEN)
    /\ Truthy(e.PRACTICUM_TOKEN)
    /\ Truthy(e.TELEGRAM_CHAT_ID)

---------------------------------------------------------------------------
(* Exceptions *)

\* the classes of the module `exceptions` that homework.py names
ExceptionsModule ==
    {"TelegramError", "InvalidResponseCode", "ConnectionError",
     "EmptyResponseFromAPI"}

\* built-in and library exception classes that the code can meet
LibraryExceptions ==
    {"TypeError", "ValueError", "AttributeError", "RuntimeError",
     "RequestException", "JSONDecodeError"}

\* isinstance(raised, cls) for the two classes the except clauses name
IsInstance(raised, cls) ==
    CASE cls = "TelegramError" -> raised = "TelegramError"
      [] cls = "Exception" -> raised \in ExceptionsModule \cup LibraryExceptions
      [] OTHER -> raised = cls

---------------------------------------------------------------------------
(* The values the API can deliver *)

\* one element of `homeworks`: a dict with the keys it holds, or a non-dict
InputNames == {Absent, "", "hw1", "hw2"}
InputStatuses == {Absent, "", "approved", "rejected", "unknown"}

Dict(name, status, other) ==
    [type |-> "dict", homework_name |-> name, status |-> status,
     other_keys |-> other]

NotADict == [type |-> "str", homework_name |-> Absent, status |-> Absent,
             other_keys |-> FALSE]

NoneHomework == [type |-> "NoneType", homework_name |-> Absent,
                 status |-> Absent, other_keys |-> FALSE]

Elements ==
    {Dict(n, s, FALSE) : n \in InputNames, s \in InputStatuses}
        \cup {Dict(Absent, Absent, TRUE), NotADict}

\* elements after the first: main() never reads them
TailElements == {Dict("hw2", "approved", FALSE), NotADict}

HomeworkLists ==
    {<<>>} \cup
    {<<e>> \o t : e \in Elements,
                  t \in UNION {[1..n -> TailElements] : n \in 0..(MaxHomeworks - 1)}}

\* the value stored under the key 'homeworks'
ListValue(items) == [type |-> "list", items |-> items]
NonList(type) == [type |-> type, items |-> <<>>]

HomeworksValues ==
    {ListValue(l) : l \in HomeworkLists}
        \cup {NonList(t) : t \in {"NoneType", "int", "dict", "str"}}

\* the parsed JSON body
Mapping(has_hw, hw, has_cd) ==
    [type |-> "dict", has_homeworks |-> has_hw, homeworks |-> hw,
     has_current_date |-> has_cd]

NonMapping(type) ==
    [type |-> type, has_homeworks |-> FALSE, homeworks |-> NonList("NoneType"),
     has_current_date |-> FALSE]

NoResponse == NonMapping("unbound")

Responses ==
    {Mapping(TRUE, hw, cd) : hw \in HomeworksValues, cd \in BOOLEAN}
        \cup {Mapping(FALSE, NonList("NoneType"), cd) : cd \in BOOLEAN}
        \cup {NonMapping(t) : t \in {"list", "NoneType"}}

\* what requests.get and .json() do in one call
HttpResult(raised, status_code, json_raised, json) ==
    [raised |-> raised, status_code |-> status_code,
     json_raised |-> json_raised, json |-> json]

NoHttp == HttpResult(NoError, 0, NoError, NoResponse)

HttpResults ==
    {HttpResult("RequestException", 0, NoError, NoResponse)}
        \cup {HttpResult(NoError, c, NoError, NoResponse) : c \in {404, 503}}
        \cup {HttpResult(NoError, HTTP_OK, "JSONDecodeError", NoResponse)}
        \cup {HttpResult(NoError, HTTP_OK, NoError, r) : r \in Responses}

\* what bot.send_message raises
SendOutcomes == {NoError, "TelegramError", "RuntimeError"}

\* what telegram.Bot(...) raises
BotOutcomes == {NoError, "TelegramError", "RuntimeError"}

---------------------------------------------------------------------------
(* The functions of homework.py *)

\* one call bot.send_message(chat_id=..., text=message) by function `via`
Call(via, message, outcome) ==
    [via |-> via, text |-> message, outcome |-> outcome]

\* one record given to logging
Log(level, msg) == [level |-> level, msg |-> msg]

\* str(v) inside an f-string
Str(v) == IF v = None THEN "None" ELSE v

\* the logging calls of check_tokens' caller, lines 149-150
check_tokens_log ==
    <<Log("CRITICAL",
          "Otsutstvuet neobhodimoe kol-vo peremennyh okruzheniya")>>

\* the logging calls of send_message
send_message_log(message, outcome) ==
    <<Log("INFO", "Otpravka soobshcheniya \"" \o Str(message)
                      \o "\" v Telegram chat")>>
    \o (IF outcome = NoError
            THEN <<Log("DEBUG", "Soobshchenie \"" \o Str(message)
                                    \o "\" otpravleno v Telegram chat")>>
        ELSE IF IsInstance(outcome, "TelegramError")
            THEN <<Log("ERROR", "Oshibka pri otpravke soobshcheniya \""
                                    \o Str(message) \o "\" v Telegram chat: "
                                    \o outcome)>>
        ELSE IF IsInstance(outcome, "Exception")
            THEN <<Log("ERROR", "Neizvestnaya oshibka pri otpravke soobshcheniya \""
                                    \o Str(message) \o "\" v Telegram chat: "
                                    \o outcome)>>
        ELSE <<>>)

\* the logging calls of handle_error
handle_error_log(message, outcome) ==
    IF outcome # NoError /\ IsInstance(outcome, "TelegramError")
        THEN <<Log("ERROR", "Oshibka pri otpravke soobshcheniya v Telegram: "
                                \o outcome)>>
        ELSE <<>>

\* the logging calls of get_api_answer
get_api_answer_log(ts, h) ==
    <<Log("INFO", "Nachalo zaprosa: from_date = " \o ToString(ts))>>

\* the logging calls of check_response
check_response_log(resp) == <<Log("DEBUG", "Proverka")>>

\* the logging call of the else branch of `if report != prev_report`
unchanged_log == <<Log("DEBUG", "Status ne pomenyalsya")>>

\* mutant of send_message: a failed send is tried a second time
send_message_Retry(message, outcome) ==
    LET call == [via |-> "send_message", text |-> message, outcome |-> outcome]
    IN  IF outcome = NoError
            THEN [calls |-> <<call>>, raised |-> NoError]
        ELSE [calls |-> <<call, call>>, raised |-> NoError]

\* mutant of send_message: without the clause `except Exception`
send_message_NoCatchAll(message, outcome) ==
    LET call == [via |-> "send_message", text |-> message, outcome |-> outcome]
    IN  IF outcome = NoError
            THEN [calls |-> <<call>>, raised |-> NoError]
        ELSE IF IsInstance(outcome, "TelegramError")
            THEN [calls |-> <<call>>, raised |-> NoError]
        ELSE [calls |-> <<call>>, raised |-> outcome]

send_message(message, outcome) ==
    LET call == Call("send_message", message, outcome)
    IN  IF outcome = NoError
            THEN [calls |-> <<call>>, raised |-> NoError]
        ELSE IF IsInstance(outcome, "TelegramError")
            THEN [calls |-> <<call>>, raised |-> NoError]
        ELSE IF IsInstance(outcome, "Exception")
            THEN [calls |-> <<call>>, raised |-> NoError]
        ELSE [calls |-> <<call>>, raised |-> outcome]

handle_error(message, outcome) ==
    LET call == Call("handle_error", message, outcome)
    IN  IF outcome = NoError
            THEN [calls |-> <<call>>, raised |-> NoError]
        ELSE IF IsInstance(outcome, "TelegramError")
            THEN [calls |-> <<call>>, raised |-> NoError]
        ELSE [calls |-> <<call>>, raised |-> outcome]

get_api_answer(ts, h) ==
    LET try ==
            IF h.raised # NoError
                THEN Raise(h.raised, "transport")
            ELSE IF h.status_code # HTTP_OK
                THEN Raise("InvalidResponseCode",
                           "Ne udalos poluchit otvet API, oshibka: "
                               \o ToString(h.status_code))
            ELSE IF h.json_raised # NoError
                THEN Raise(h.json_raised, "json")
            ELSE Return(h.json)
    IN  IF try.raised # NoError /\ IsInstance(try.raised, "Exception")
            THEN Raise("ConnectionError",
                       "Ne vernyy kod otveta parametra zaprosa: from_date = "
                           \o ToString(ts))
        ELSE try

\* mutant of check_response: the type of `homeworks` is checked before the
\* presence of the two keys
check_response_TypeFirst(resp) ==
    IF resp.type # "dict"
        THEN Raise("TypeError", "Oshibka v tipe otveta API")
    ELSE IF resp.homeworks.type # "list"
        THEN Raise("TypeError", "Homeworks ne yavlyaetsya spiskom")
    ELSE IF ~resp.has_homeworks \/ ~resp.has_current_date
        THEN Raise("EmptyResponseFromAPI", "Pustoy otvet ot API")
    ELSE Return(resp.homeworks.items)

\* mutant of check_response: `homeworks or []` in place of the None check
check_response_Coerce(resp) ==
    IF resp.type # "dict"
        THEN Raise("TypeError", "Oshibka v tipe otveta API")
    ELSE IF ~resp.has_homeworks \/ ~resp.has_current_date
        THEN Raise("EmptyResponseFromAPI", "Pustoy otvet ot API")
    ELSE IF resp.homeworks.type = "NoneType"
        THEN Return(<<>>)
    ELSE IF resp.homeworks.type # "list"
        THEN Raise("TypeError", "Homeworks ne yavlyaetsya spiskom")
    ELSE Return(resp.homeworks.items)

check_response(resp) ==
    IF resp.type # "dict"
        THEN Raise("TypeError", "Oshibka v tipe otveta API")
    ELSE IF ~resp.has_homeworks \/ ~resp.has_current_date
        THEN Raise("EmptyResponseFromAPI", "Pustoy otvet ot API")
    ELSE LET homeworks == resp.homeworks
         IN  IF homeworks.type = "NoneType"
                 THEN Raise("TypeError", "Homeworks ne yavlyaetsya spiskom")
             ELSE IF homeworks.type # "list"
                 THEN Raise("TypeError", "Homeworks ne yavlyaetsya spiskom")
             ELSE Return(homeworks.items)

\* mutant of parse_status: without the check of homework_name
parse_status_NoNameCheck(hw) ==
    LET homework_name == Get(hw.homework_name)
        status == Get(hw.status)
    IN  IF ~Truthy(status)
            THEN Raise("ValueError",
                       "Status raboty \"" \o homework_name
                           \o "\" ne byl vozvrashchen API")
        ELSE IF status \notin DOMAIN HOMEWORK_VERDICTS
            THEN Raise("ValueError",
                       "Status raboty \"" \o homework_name
                           \o "\" neizvesten: " \o status)
        ELSE Return("Izmenilsya status proverki raboty \"" \o homework_name
                        \o "\". " \o HOMEWORK_VERDICTS[status])

parse_status(hw) ==
    LET homework_name == Get(hw.homework_name)
        status == Get(hw.status)
    IN  IF ~Truthy(homework_name)
            THEN Raise("ValueError",
                       "Otvet API ne soderzhit klyuch \"homework_name\"")
        ELSE IF ~Truthy(status)
            THEN Raise("ValueError",
                       "Status raboty \"" \o homework_name
                           \o "\" ne byl vozvrashchen API")
        ELSE IF status \notin DOMAIN HOMEWORK_VERDICTS
            THEN Raise("ValueError",
                       "Status raboty \"" \o homework_name
                           \o "\" neizvesten: " \o status)
        ELSE Return("Izmenilsya status proverki raboty \"" \o homework_name
                        \o "\". " \o HOMEWORK_VERDICTS[status])

---------------------------------------------------------------------------
(* main() *)

Sentinel == "Net novyh statusov."

\* a response that passes check_response with an empty `homeworks`
ValidEmpty(resp) ==
    /\ resp.type = "dict"
    /\ resp.has_homeworks
    /\ resp.has_current_date
    /\ resp.homeworks = ListValue(<<>>)

\* no parse_status call made yet
NotCalled == [raised |-> "not called", msg |-> "", value |-> None]

EmptyReport == [name |-> "", output |-> ""]

NoException == [kind |-> NoError, msg |-> ""]

\* bool(homework) in `parse_status(homework) if homework else ...`
HomeworkTruthy(hw) ==
    CASE hw.type = "NoneType" -> FALSE
      [] hw.type = "dict" ->
            hw.homework_name # Absent \/ hw.status # Absent \/ hw.other_keys
      [] OTHER -> TRUE

TypeOK ==
    /\ pc \in {"check_tokens", "make_bot", "get_api_answer", "check_response",
               "build_report", "compare", "notify", "handle_error", "sleep",
               "exited", "crashed"}
    /\ bot \in {"unbound", "Bot"}
    /\ requests \in 0..MaxCycles
    /\ sleeps \in 0..MaxCycles
    /\ sends \in 0..MaxCycles
    /\ Len(sent) <= 1
    /\ compared \in {"none", "equal", "different"}

Init ==
    /\ pc = "check_tokens"
    /\ env \in [PRACTICUM_TOKEN : EnvValues, TELEGRAM_TOKEN : EnvValues,
                TELEGRAM_CHAT_ID : EnvValues]
    /\ bot = "unbound"
    /\ report = EmptyReport
    /\ prev_report = EmptyReport
    /\ http = NoHttp
    /\ timestamp = StartTime
    /\ response = NoResponse
    /\ new_homeworks = <<>>
    /\ homework = NoneHomework
    /\ error = NoException
    /\ escaping = NoError
    /\ now = StartTime
    /\ sent = <<>>
    /\ compared = "none"
    /\ report0 = EmptyReport
    /\ prev0 = EmptyReport
    /\ prev_empty = FALSE
    /\ requests = 0
    /\ sleeps = 0
    /\ sends = 0
    /\ submission = NoneHomework
    /\ formatted = NotCalled
    /\ log = <<>>
    /\ lost = FALSE
    /\ last_valid = "none"
    /\ failures = 0
    /\ failure_sends = 0

\* an exception raised in the try block of the loop: `except Exception as
\* error` takes it, anything else leaves through `finally`
RaisedInTry(kind, msg) ==
    IF IsInstance(kind, "Exception")
        THEN /\ error' = [kind |-> kind, msg |-> msg]
             /\ pc' = "handle_error"
             /\ UNCHANGED escaping
        ELSE /\ escaping' = kind
             /\ pc' = "sleep"
             /\ UNCHANGED error

\* if not check_tokens(): sys.exit(...)
CheckTokens ==
    /\ pc = "check_tokens"
    /\ pc' = IF check_tokens(env) THEN "make_bot" ELSE "exited"
    /\ log' = IF check_tokens(env) THEN log ELSE log \o check_tokens_log
    /\ UNCHANGED <<env, last_valid, failures, failure_sends, lost, submission,
                   formatted, bot, report, prev_report, http, timestamp,
                   response, new_homeworks, homework, error, escaping, now,
                   sent, compared, report0, prev0, prev_empty, requests,
                   sleeps, sends>>

\* bot = telegram.Bot(...); a TelegramError reaches handle_error(bot, ...)
\* with `bot` unbound, which raises before any send; any error ends main()
MakeBot ==
    /\ pc = "make_bot"
    /\ \E outcome \in BotOutcomes :
          IF outcome = NoError
              THEN /\ bot' = "Bot"
                   /\ pc' = "get_api_answer"
              ELSE /\ bot' = bot
                   /\ pc' = "crashed"
    /\ UNCHANGED <<env, last_valid, failures, failure_sends, lost, log,
                   submission, formatted, report, prev_report, http,
                   timestamp, response, new_homeworks, homework, error,
                   escaping, now, sent, compared, report0, prev0, prev_empty,
                   requests, sleeps, sends>>

\* the send_message call of the current cycle did not deliver
DeliveryFailed ==
    /\ Len(sent) >= 1
    /\ sent[1].via = "send_message"
    /\ sent[1].outcome # NoError

\* response = get_api_answer(int(time.time()))
\* `response`, `new_homeworks` and `homework` are assigned in every iteration
\* before they are read: what an earlier iteration left in them is dead, and
\* the model drops it here.
GetApiAnswer ==
    /\ pc = "get_api_answer"
    /\ requests < MaxCycles
    /\ \E h \in HttpResults :
          LET r == get_api_answer(now, h)
          IN  /\ http' = h
              /\ log' = get_api_answer_log(now, h)
              /\ lost' = /\ r.raised = NoError
                         /\ r.value = response
                         /\ (DeliveryFailed \/ lost)
              /\ IF r.raised = NoError
                     THEN /\ response' = r.value
                          /\ pc' = "check_response"
                          /\ error' = NoException
                          /\ UNCHANGED escaping
                     ELSE /\ response' = NoResponse
                          /\ RaisedInTry(r.raised, r.msg)
    /\ timestamp' = now
    /\ failures' = IF error.kind # NoError THEN failures + 1 ELSE 0
    /\ failure_sends' = IF error.kind # NoError
                            THEN failure_sends + Len(sent)
                            ELSE 0
    /\ requests' = requests + 1
    /\ new_homeworks' = <<>>
    /\ homework' = NoneHomework
    /\ sent' = <<>>
    /\ compared' = "none"
    /\ report0' = report
    /\ prev0' = prev_report
    /\ prev_empty' = ValidEmpty(response)
    /\ UNCHANGED <<env, last_valid, submission, formatted, bot, report,
                   prev_report, now, sleeps, sends>>

\* new_homeworks = check_response(response)
CheckResponse ==
    /\ pc = "check_response"
    /\ LET r == check_response(response)
       IN  IF r.raised = NoError
               THEN /\ new_homeworks' = r.value
                    /\ last_valid' = "running"
                    /\ pc' = "build_report"
                    /\ UNCHANGED <<error, escaping>>
               ELSE /\ new_homeworks' = new_homeworks
                    /\ last_valid' = last_valid
                    /\ RaisedInTry(r.raised, r.msg)
    /\ log' = log \o check_response_log(response)
    /\ UNCHANGED <<env, failures, failure_sends, lost, submission, formatted,
                   bot, report, prev_report, http, timestamp, response,
                   homework, now, sent, compared, report0, prev0, prev_empty,
                   requests, sleeps, sends>>

\* if new_homeworks: ... else: ...   (report is updated in place)
BuildReport ==
    /\ pc = "build_report"
    /\ IF Len(new_homeworks) > 0
           THEN LET hw == new_homeworks[1]
                IN  /\ homework' = hw
                    /\ IF hw.type = "dict"
                           THEN /\ report' = [name |-> Get(hw.homework_name),
                                              output |-> Get(hw.status)]
                                /\ pc' = "compare"
                                /\ UNCHANGED <<error, escaping>>
                           ELSE /\ report' = report
                                /\ RaisedInTry("AttributeError",
                                       "'str' object has no attribute 'get'")
           ELSE /\ homework' = NoneHomework
                /\ report' = [report EXCEPT !.output = Sentinel]
                /\ pc' = "compare"
                /\ UNCHANGED <<error, escaping>>
    /\ last_valid' = IF Len(new_homeworks) > 0 /\ new_homeworks[1].type # "dict"
                         THEN "element"
                         ELSE last_valid
    /\ UNCHANGED <<env, failures, failure_sends, lost, log, submission,
                   formatted, bot, prev_report, http, timestamp, response,
                   new_homeworks, now, sent, compared, report0, prev0,
                   prev_empty, requests, sleeps, sends>>

\* mutant of Compare: the notification branch is taken whatever the comparison
Compare_AlwaysNotify ==
    /\ pc = "compare"
    /\ compared' = IF report # prev_report THEN "different" ELSE "equal"
    /\ pc' = "notify"
    /\ log' = IF report # prev_report THEN log ELSE log \o unchanged_log
    /\ last_valid' = IF report # prev_report THEN last_valid ELSE "unchanged"
    /\ UNCHANGED <<env, failures, failure_sends, lost, submission, formatted,
                   bot, report, prev_report, http, timestamp, response,
                   new_homeworks, homework, error, escaping, now, sent,
                   report0, prev0, prev_empty, requests, sleeps, sends>>

\* if report != prev_report: ... else: logging.debug(...)
Compare ==
    /\ pc = "compare"
    /\ IF report # prev_report
           THEN /\ compared' = "different"
                /\ pc' = "notify"
           ELSE /\ compared' = "equal"
                /\ pc' = "sleep"
    /\ log' = IF report # prev_report THEN log ELSE log \o unchanged_log
    /\ last_valid' = IF report # prev_report THEN last_valid ELSE "unchanged"
    /\ UNCHANGED <<env, failures, failure_sends, lost, submission, formatted,
                   bot, report, prev_report, http, timestamp, response,
                   new_homeworks, homework, error, escaping, now, sent,
                   report0, prev0, prev_empty, requests, sleeps, sends>>

\* mutant of Notify: prev_report is overwritten before parse_status and the
\* send, so also when parse_status raises
Notify_CommitFirst ==
    /\ pc = "notify"
    /\ prev_report' = report
    /\ LET send == IF HomeworkTruthy(homework)
                       THEN parse_status(homework)
                       ELSE Return(report.output)
       IN  IF send.raised # NoError
               THEN /\ RaisedInTry(send.raised, send.msg)
                    /\ UNCHANGED <<sent, sends, log>>
               ELSE \E outcome \in SendOutcomes :
                       LET r == send_message(send.value, outcome)
                       IN  /\ sent' = sent \o r.calls
                           /\ log' = log \o send_message_log(send.value, outcome)
                           /\ sends' = sends + Len(r.calls)
                           /\ IF r.raised = NoError
                                  THEN /\ pc' = "sleep"
                                       /\ UNCHANGED <<error, escaping>>
                                  ELSE RaisedInTry(r.raised, "send")
    /\ last_valid' = IF /\ HomeworkTruthy(homework)
                            /\ parse_status(homework).raised # NoError
                         THEN "formatter"
                         ELSE "sent"
    /\ UNCHANGED <<env, failures, failure_sends, lost, submission, formatted,
                   bot, report, http, timestamp, response, new_homeworks,
                   homework, now, compared, report0, prev0, prev_empty,
                   requests, sleeps>>

\* mutant of Notify: prev_report is overwritten only when the send delivered
Notify_CommitOnDelivery ==
    /\ pc = "notify"
    /\ LET send == IF HomeworkTruthy(homework)
                       THEN parse_status(homework)
                       ELSE Return(report.output)
       IN  IF send.raised # NoError
               THEN /\ RaisedInTry(send.raised, send.msg)
                    /\ UNCHANGED <<prev_report, sent, sends, log>>
               ELSE \E outcome \in SendOutcomes :
                       LET r == send_message(send.value, outcome)
                       IN  /\ sent' = sent \o r.calls
                           /\ log' = log \o send_message_log(send.value, outcome)
                           /\ sends' = sends + Len(r.calls)
                           /\ prev_report' = IF outcome = NoError
                                                 THEN report
                                                 ELSE prev_report
                           /\ pc' = "sleep"
                           /\ UNCHANGED <<error, escaping>>
    /\ last_valid' = IF /\ HomeworkTruthy(homework)
                            /\ parse_status(homework).raised # NoError
                         THEN "formatter"
                         ELSE "sent"
    /\ UNCHANGED <<env, failures, failure_sends, lost, submission, formatted,
                   bot, report, http, timestamp, response, new_homeworks,
                   homework, now, compared, report0, prev0, prev_empty,
                   requests, sleeps>>

\* mutant of Notify: prev_report is not overwritten after the send
Notify_NoCommit ==
    /\ pc = "notify"
    /\ LET send == IF HomeworkTruthy(homework)
                       THEN parse_status(homework)
                       ELSE Return(report.output)
       IN  IF send.raised # NoError
               THEN /\ RaisedInTry(send.raised, send.msg)
                    /\ UNCHANGED <<sent, sends, log>>
               ELSE \E outcome \in SendOutcomes :
                       LET r == send_message(send.value, outcome)
                       IN  /\ sent' = sent \o r.calls
                           /\ log' = log \o send_message_log(send.value, outcome)
                           /\ sends' = sends + Len(r.calls)
                           /\ IF r.raised = NoError
                                  THEN /\ pc' = "sleep"
                                       /\ UNCHANGED <<error, escaping>>
                                  ELSE RaisedInTry(r.raised, "send")
    /\ last_valid' = IF /\ HomeworkTruthy(homework)
                            /\ parse_status(homework).raised # NoError
                         THEN "formatter"
                         ELSE "sent"
    /\ UNCHANGED <<env, failures, failure_sends, lost, submission, formatted,
                   bot, report, prev_report, http, timestamp, response,
                   new_homeworks, homework, now, compared, report0, prev0,
                   prev_empty, requests, sleeps>>

\* send = parse_status(homework) if homework else report['output']
\* send_message(bot, send); prev_report = report.copy()
Notify ==
    /\ pc = "notify"
    /\ LET send == IF HomeworkTruthy(homework)
                       THEN parse_status(homework)
                       ELSE Return(report.output)
       IN  IF send.raised # NoError
               THEN /\ RaisedInTry(send.raised, send.msg)
                    /\ UNCHANGED <<prev_report, sent, sends, log>>
               ELSE \E outcome \in SendOutcomes :
                       LET r == send_message(send.value, outcome)
                       IN  /\ sent' = sent \o r.calls
                           /\ log' = log \o send_message_log(send.value, outcome)
                           /\ sends' = sends + Len(r.calls)
                           /\ IF r.raised = NoError
                                  THEN /\ prev_report' = report
                                       /\ pc' = "sleep"
                                       /\ UNCHANGED <<error, escaping>>
                                  ELSE /\ prev_report' = prev_report
                                       /\ RaisedInTry(r.raised, "send")
    /\ last_valid' = IF /\ HomeworkTruthy(homework)
                            /\ parse_status(homework).raised # NoError
                         THEN "formatter"
                         ELSE "sent"
    /\ UNCHANGED <<env, failures, failure_sends, lost, submission, formatted,
                   bot, report, http, timestamp, response, new_homeworks,
                   homework, now, compared, report0, prev0, prev_empty,
                   requests, sleeps>>

\* mutant of HandleError: a failure is reported only when the cycle before
\* did not end in a failure as well
HandleError_Dedup ==
    /\ pc = "handle_error"
    /\ \E outcome \in SendOutcomes :
          LET r == handle_error("Sboy v rabote programmy: " \o error.msg,
                                outcome)
              calls == IF failures > 0 THEN <<>> ELSE r.calls
          IN  /\ sent' = sent \o calls
              /\ log' = log
              /\ sends' = sends + Len(calls)
              /\ escaping' = IF failures > 0 THEN NoError ELSE r.raised
    /\ pc' = "sleep"
    /\ UNCHANGED <<env, last_valid, failures, failure_sends, lost, submission,
                   formatted, bot, report, prev_report, http, timestamp,
                   response, new_homeworks, homework, error, now, compared,
                   report0, prev0, prev_empty, requests, sleeps>>

\* except Exception as error: handle_error(bot, f'Sboy ...: {error}')
HandleError ==
    /\ pc = "handle_error"
    /\ \E outcome \in SendOutcomes :
          LET r == handle_error("Sboy v rabote programmy: " \o error.msg,
                                outcome)
          IN  /\ sent' = sent \o r.calls
              /\ log' = log \o handle_error_log(
                                   "Sboy v rabote programmy: " \o error.msg,
                                   outcome)
              /\ sends' = sends + Len(r.calls)
              /\ escaping' = r.raised
    /\ pc' = "sleep"
    /\ UNCHANGED <<env, last_valid, failures, failure_sends, lost, submission,
                   formatted, bot, report, prev_report, http, timestamp,
                   response, new_homeworks, homework, error, now, compared,
                   report0, prev0, prev_empty, requests, sleeps>>

\* mutant of Sleep: the sleep is in the try block, not in `finally`, so a
\* cycle that reached the except clause does not sleep
Sleep_OnlyOnSuccess ==
    /\ pc = "sleep"
    /\ sleeps' = IF error.kind = NoError THEN sleeps + 1 ELSE sleeps
    /\ now' = IF error.kind = NoError THEN now + RETRY_PERIOD ELSE now
    /\ pc' = IF escaping # NoError THEN "crashed" ELSE "get_api_answer"
    /\ UNCHANGED <<env, last_valid, failures, failure_sends, lost, log,
                   submission, formatted, bot, report, prev_report, http,
                   timestamp, response, new_homeworks, homework, error,
                   escaping, sent, compared, report0, prev0, prev_empty,
                   requests, sends>>

\* finally: time.sleep(RETRY_PERIOD); then the next iteration, unless an
\* exception is on its way out of the loop
Sleep ==
    /\ pc = "sleep"
    /\ sleeps' = sleeps + 1
    /\ now' = now + RETRY_PERIOD
    /\ pc' = IF escaping # NoError THEN "crashed" ELSE "get_api_answer"
    /\ UNCHANGED <<env, last_valid, failures, failure_sends, lost, log,
                   submission, formatted, bot, report, prev_report, http,
                   timestamp, response, new_homeworks, homework, error,
                   escaping, sent, compared, report0, prev0, prev_empty,
                   requests, sends>>

Next ==
    \/ CheckTokens
    \/ MakeBot
    \/ GetApiAnswer
    \/ CheckResponse
    \/ BuildReport
    \/ Compare
    \/ Notify
    \/ HandleError
    \/ Sleep

Spec == Init /\ [][Next]_vars

---------------------------------------------------------------------------
(* parse_status on its own, over a bounded set of submissions *)

\* the values stored under 'homework_name' and 'status' (None: JSON null)
ParseNames == {Absent, None, "", "hw1", "hw2"}
ParseStatuses ==
    {Absent, None, "", "approved", "reviewing", "rejected", "unknown",
     "Net novyh statusov."}

ParseInputs ==
    {Dict(n, s, o) : n \in ParseNames, s \in ParseStatuses, o \in BOOLEAN}

InitParse ==
    /\ pc = "parse_status"
    /\ env = [PRACTICUM_TOKEN |-> "value", TELEGRAM_TOKEN |-> "value",
              TELEGRAM_CHAT_ID |-> "value"]
    /\ bot = "unbound"
    /\ report = EmptyReport
    /\ prev_report = EmptyReport
    /\ http = NoHttp
    /\ timestamp = StartTime
    /\ response = NoResponse
    /\ new_homeworks = <<>>
    /\ homework = NoneHomework
    /\ error = NoException
    /\ escaping = NoError
    /\ now = StartTime
    /\ sent = <<>>
    /\ compared = "none"
    /\ report0 = EmptyReport
    /\ prev0 = EmptyReport
    /\ prev_empty = FALSE
    /\ requests = 0
    /\ sleeps = 0
    /\ sends = 0
    /\ submission \in ParseInputs
    /\ formatted = NotCalled
    /\ log = <<>>
    /\ lost = FALSE
    /\ last_valid = "none"
    /\ failures = 0
    /\ failure_sends = 0

\* formatted = parse_status(submission)
ParseStatus ==
    /\ pc = "parse_status"
    /\ formatted = NotCalled
    /\ formatted' = parse_status(submission)
    /\ UNCHANGED <<pc, env, bot, report, prev_report, http, timestamp,
                   response, new_homeworks, homework, error, escaping, now,
                   sent, compared, report0, prev0, prev_empty, requests,
                   sleeps, sends, submission, log, lost, failures,
                   failure_sends, last_valid>>

NextParse == ParseStatus

SpecParse == InitParse /\ [][NextParse]_vars

---------------------------------------------------------------------------
(* Properties *)

\* the try/except part of the current cycle is over: every send of the cycle
\* has been made (the state is before or after the sleep of `finally`)
CycleDone == requests > 0 /\ pc \in {"sleep", "get_api_answer", "crashed"}

\* the cycle is over, its sleep included
CycleEnded == requests > 0 /\ pc \in {"get_api_answer", "crashed"}

\* the response of the current cycle is a mapping without one of the keys
LacksKey(resp) ==
    resp.type = "dict" /\ (~resp.has_homeworks \/ ~resp.has_current_date)

\* the response of the current cycle holds `homeworks` with a non-list value
HomeworksNotAList(resp) ==
    resp.type = "dict" /\ resp.has_homeworks /\ resp.homeworks.type # "list"

\* C1: in a cycle whose comparison found report equal to prev_report, no
\* bot.send_message call is made, whatever the earlier cycles did.
C1_EqualNoSend ==
    compared = "equal" => (sent = <<>> /\ report = prev_report)

C1_Witness ==
    /\ compared = "equal"
    /\ CycleEnded
    /\ requests >= 2
    /\ report # EmptyReport

\* C2: in a cycle whose comparison found report different from prev_report,
\* exactly one bot.send_message call is made by the end of the cycle, never
\* two, on each path: rendered text, sentinel text, failure message.
C2_DifferentOneSend ==
    compared = "different" =>
        /\ Len(sent) <= 1
        /\ CycleDone => Len(sent) = 1

C2_Witness ==
    /\ compared = "different"
    /\ CycleEnded
    /\ Len(sent) = 1
    /\ sent[1].via = "handle_error"
    /\ error.kind = "ValueError"

\* C3: once the loop is entered, no exception ends it.
C3_LoopNeverTerminates ==
    requests > 0 => pc # "crashed"

\* C4: a request that completes with a status other than 200 makes
\* get_api_answer deliver InvalidResponseCode to main().
C4_BadStatusIsInvalidResponseCode ==
    (requests > 0 /\ http.raised = NoError /\ http.status_code # HTTP_OK)
        => error.kind = "InvalidResponseCode"

\* C5: send_message makes one bot.send_message call, whatever that call
\* does, and raises nothing: main() goes on to the commit and the sleep.
C5_SendMessageReturns ==
    (Len(sent) >= 1 /\ sent[1].via = "send_message") =>
        /\ Len(sent) = 1
        /\ error = NoException
        /\ escaping = NoError
        /\ pc \in {"sleep", "get_api_answer"}
        /\ prev_report = report

C5_Witness ==
    /\ Len(sent) = 1
    /\ sent[1].via = "send_message"
    /\ sent[1].outcome = "RuntimeError"
    /\ CycleEnded

\* C6: with one of the three credentials absent, main() ends before the
\* loop: no request, no send, no sleep.
C6_MissingCredentialNoLoop ==
    (\/ env.PRACTICUM_TOKEN = None
     \/ env.TELEGRAM_TOKEN = None
     \/ env.TELEGRAM_CHAT_ID = None) =>
        /\ pc \in {"check_tokens", "exited"}
        /\ bot = "unbound"
        /\ requests = 0
        /\ sends = 0
        /\ sleeps = 0

C6_Witness ==
    /\ env.PRACTICUM_TOKEN = "value"
    /\ env.TELEGRAM_TOKEN = "value"
    /\ env.TELEGRAM_CHAT_ID = None
    /\ pc = "exited"

\* C7: a cycle in which get_api_answer fails leaves report and prev_report
\* as they were, makes one send of the failure message, sleeps and is then
\* at the next request.
C7_ApiFailureCycle ==
    (CycleEnded /\ error.kind = "ConnectionError") =>
        /\ report = report0
        /\ prev_report = prev0
        /\ Len(sent) = 1
        /\ sent[1].via = "handle_error"
        /\ pc = "get_api_answer"

\* C8: a first cycle with a valid response and empty homeworks sends the
\* sentinel text once; a cycle with such a response right after a cycle
\* with such a response sends nothing.
C8_EmptyHomeworks ==
    /\ (requests = 1 /\ ValidEmpty(response) /\ CycleDone) =>
           /\ Len(sent) = 1
           /\ sent[1].via = "send_message"
           /\ sent[1].text = Sentinel
    /\ (prev_empty /\ ValidEmpty(response)) => sent = <<>>

C8_Witness ==
    /\ requests = 3
    /\ prev_empty
    /\ ValidEmpty(response)
    /\ CycleEnded
    /\ report.name = "hw1"

\* C9: a mapping response without the key homeworks or without the key
\* current_date makes check_response fail with EmptyResponseFromAPI,
\* not with TypeError, whatever the keys that are present hold.
C9_MissingKeyIsEmptyResponse ==
    (LacksKey(response) /\ pc # "check_response") =>
        /\ error.kind = "EmptyResponseFromAPI"
        /\ compared = "none"

C9_Witness ==
    /\ response = Mapping(TRUE, NonList("int"), FALSE)
    /\ error.kind = "EmptyResponseFromAPI"
    /\ CycleEnded

\* C10 as stated: homeworks present and not a list makes check_response fail
\* with TypeError, whether or not current_date is present.
C10_Original ==
    (HomeworksNotAList(response) /\ pc # "check_response") =>
        error.kind = "TypeError"

\* C10 amended: homeworks present and not a list never makes check_response
\* return; it fails with TypeError when current_date is present and with
\* EmptyResponseFromAPI when current_date is absent.
C10_NotAListFails ==
    (HomeworksNotAList(response) /\ pc # "check_response") =>
        /\ compared = "none"
        /\ pc \notin {"build_report", "compare", "notify"}
        /\ error.kind = IF response.has_current_date
                            THEN "TypeError"
                            ELSE "EmptyResponseFromAPI"

C10_Witness ==
    /\ response = Mapping(TRUE, NonList("NoneType"), TRUE)
    /\ error.kind = "TypeError"
    /\ CycleEnded

\* the verdict texts of the specification, by status
RefVerdict(status) ==
    CASE status = "approved" ->
             "Rabota proverena: revyueru vsyo ponravilos. Ura!"
      [] status = "reviewing" -> "Rabota vzyata na proverku revyuerom."
      [] status = "rejected" ->
             "Rabota proverena: u revyuera est zamechaniya."

\* C11: parse_status returns 'Izmenilsya status proverki raboty "{name}".
\* {verdict}' when the name is non-empty and the status is one of the three
\* keys of the verdict table, and fails with ValueError when the name is
\* missing or empty or the status is missing, empty or unknown.
C11_ParseStatusAgrees ==
    formatted # NotCalled =>
        IF /\ submission.homework_name \in {"hw1", "hw2"}
           /\ submission.status \in {"approved", "reviewing", "rejected"}
            THEN /\ formatted.raised = NoError
                 /\ formatted.value =
                        "Izmenilsya status proverki raboty \""
                            \o submission.homework_name \o "\". "
                            \o RefVerdict(submission.status)
            ELSE formatted.raised = "ValueError"

C11_Witness ==
    /\ submission = Dict("hw2", "reviewing", FALSE)
    /\ formatted.raised = NoError

\* C12: in a cycle with a non-empty homeworks whose report differs from
\* prev_report, send_message is passed nothing but the text parse_status
\* gives for the first element; if the status of that element is missing or
\* not in the verdict table, send_message is not called and prev_report is
\* not overwritten: only handle_error sends.
C12_OnlyFormatterOutput ==
    (CycleDone /\ Len(new_homeworks) > 0 /\ compared = "different") =>
        /\ \A i \in 1..Len(sent) :
              sent[i].via = "send_message" =>
                  /\ parse_status(homework).raised = NoError
                  /\ sent[i].text = parse_status(homework).value
        /\ Get(homework.status) \notin DOMAIN HOMEWORK_VERDICTS =>
              /\ Len(sent) = 1
              /\ sent[1].via = "handle_error"
              /\ prev_report = prev0

\* C13: every cycle, failed or not, ends with one sleep of RETRY_PERIOD:
\* inside a cycle one sleep fewer than requests has been made, after it as
\* many, and each request is one requests.get call.
C13_OneSleepPerCycle ==
    /\ (requests > 0 /\ pc \in {"check_response", "build_report", "compare",
                               "notify", "handle_error", "sleep"})
           => sleeps + 1 = requests
    /\ (bot = "Bot" /\ pc \in {"get_api_answer", "crashed"})
           => sleeps = requests
    /\ now = StartTime + sleeps * RETRY_PERIOD

C13_Witness ==
    /\ requests = 3
    /\ sleeps = 3
    /\ pc = "get_api_answer"
    /\ error.kind = "ConnectionError"
    /\ report = prev_report
    /\ report.output = "approved"

\* C14: prev_report is overwritten only in a cycle in which send_message
\* has been called before, and then with the value of report; in a cycle
\* with an equal comparison or a failure it keeps the value it had at the
\* start of the cycle.
C14_CommitOnlyAfterSend ==
    IF Len(sent) >= 1 /\ sent[1].via = "send_message"
        THEN prev_report = report /\ compared = "different"
        ELSE prev_report = prev0

C14_Witness ==
    /\ CycleEnded
    /\ requests >= 2
    /\ Len(sent) = 1
    /\ sent[1].via = "send_message"
    /\ sent[1].outcome = "TelegramError"
    /\ prev_report # prev0
    /\ prev_report = report

\* the response holds a current_date that could move the cursor
SuppliesDate(resp) == resp.type = "dict" /\ resp.has_current_date

\* C15: the first request carries the time main() started at, and a later
\* request carries the cursor of the request before it unless the response
\* in between supplied a current_date.
C15_CursorFixed ==
    [][(pc = "get_api_answer" /\ pc' # "get_api_answer") =>
           IF requests = 0
               THEN timestamp' = StartTime
               ELSE ~SuppliesDate(response) => timestamp' = timestamp]_vars

\* C16: in a cycle whose valid response has empty homeworks, the report
\* that is compared has the sentinel as output and the initial empty name,
\* whatever earlier cycles saw.
C16_EmptyHomeworksReport ==
    (ValidEmpty(response) /\ pc \notin {"check_response", "build_report"}) =>
        /\ report.output = Sentinel
        /\ report.name = EmptyReport.name

\* the text main() hands to handle_error at line 187
FailureMessage == "Sboy v rabote programmy: " \o error.msg

\* C17: for every exception caught at line 186, the cycle gives logging a
\* record of the failure message and makes a send of that same message.
C17_FailureLoggedAndSent ==
    (CycleDone /\ error.kind # NoError) =>
        /\ \E i \in 1..Len(log) : log[i].msg = FailureMessage
        /\ \E j \in 1..Len(sent) :
              sent[j].via = "handle_error" /\ sent[j].text = FailureMessage

\* C18: a change whose delivery fails inside send_message is committed to
\* prev_report all the same, and while the following cycles receive the
\* same response they compare equal and send nothing.
C18_FailedDeliveryIsLost ==
    /\ DeliveryFailed => prev_report = report
    /\ lost => sent = <<>>
    /\ (lost /\ CycleDone) => (compared = "equal" /\ error = NoException)

C18_Witness ==
    /\ lost
    /\ CycleEnded
    /\ requests = 3
    /\ report = [name |-> "hw1", output |-> "approved"]

\* C19: failure messages are not deduplicated: every cycle that ends in the
\* except clause makes one send of its failure message, so N such cycles in
\* a row make N sends, and prev_report is not overwritten in them.
C19_FailuresNotDeduplicated ==
    /\ failure_sends = failures
    /\ (CycleDone /\ error.kind # NoError) =>
           /\ Len(sent) = 1
           /\ sent[1].via = "handle_error"
           /\ sent[1].text = FailureMessage
           /\ prev_report = prev0

C19_Witness ==
    /\ CycleEnded
    /\ failures = 2
    /\ failure_sends = 2
    /\ error.kind = "ValueError"
    /\ Len(sent) = 1
    /\ report.output = "unknown"
    /\ prev_report = EmptyReport

\* C20 as stated: in the sleep of a cycle that did not reach the except
\* clause report equals prev_report, and the two differ at the start of a
\* cycle only if the latest cycle that passed validation ended in a failure
\* of parse_status.
C20_Original ==
    /\ (pc = "sleep" /\ error.kind = NoError) => report = prev_report
    /\ (pc = "get_api_answer" /\ report # prev_report)
           => last_valid = "formatter"

\* C20 amended: the same, with the second case that leaves them different:
\* the latest cycle that passed validation ended in the AttributeError that
\* a first element which is not a dict raises at line 172.
C20_ReportsDifferOnlyAfterFailure ==
    /\ (pc = "sleep" /\ error.kind = NoError) => report = prev_report
    /\ (pc = "get_api_answer" /\ report # prev_report)
           => last_valid \in {"formatter", "element"}

C20_Witness ==
    /\ pc = "get_api_answer"
    /\ report # prev_report
    /\ last_valid = "element"
    /\ error.kind = "AttributeError"

====
